---- MODULE Spec2Model ----
(***************************************************************************)
(* Model of xlsx-to-csv-cli: the CSV row parser, the matrix utilities, the *)
(* header/data splitter, the column naming resolver and the per-sheet loop *)
(* of main.                                                                *)
(*                                                                         *)
(* A JavaScript string is a sequence of one-character strings, so '' is    *)
(* <<>> and 'a,b' is <<"a", ",", "b">>.  A JavaScript array is a sequence; *)
(* the code's 0-based index k is position k+1.                             *)
(***************************************************************************)
EXTENDS Integers, Sequences, FiniteSets, TLC

VARIABLES
    pc,             \* position of the running operation
    r,              \* a row of cells handed to toCsv
    line,           \* one line of csv text
    row,            \* the row toRow returns
    scanned,        \* toRow: the number of characters the scan has consumed
    scanState,      \* toRow: row, idx and withinQuotes of the running scan
    csv,            \* the lines of one sheet's csv text
    table,          \* the 2d matrix of one sheet
    transposed,     \* the matrix transpose returns
    header,         \* the header block split returns
    data,           \* the data block split returns
    error,          \* the exception the operation raised, or "none"
    isGermanFormat, \* the operator's answer to the number format question
    sheetCell,      \* a cell of the sheet as the workbook reader delivered it
    cell,           \* the cell the transform returns
    sheets,         \* the names of the sheets the operator selected, in order
    sheetNum,       \* index of the sheet the loop of main is at
    prevColNames,   \* main: the column names of the previous sheet
    colNames,       \* main: the column names resolved so far, by sheet name
    written,        \* the names of the sheets whose csv file is written
    fileText,       \* the text handed to the latest writeFileSync call
    defaultColNames,    \* requestColumnNames: the defaultColNames argument
    prevColNamesArg,    \* requestColumnNames: the prevColNames argument
    reuseOffered,       \* requestColumnNames: the reuse question was shown
    usePrevColNames,    \* requestColumnNames: the answer to the reuse question
    requests,           \* requestColumnNames: the per-column questions asked
    typed,              \* the text the operator typed at each question
    answers,            \* the answers as prompt recorded them, <<name, value>>
    returnedNames,      \* the names requestColumnNames returned
    numberText,         \* the text handed to toEnglishFormat
    formatted,          \* the text toEnglishFormat returned last
    filename,           \* main: the path of the workbook
    outDefaults         \* main: the default file name offered, by sheet name

rowVars == <<r, line, row, scanned, scanState>>
matrixVars == <<csv, table, transposed, header, data, error>>
cellVars == <<isGermanFormat, sheetCell, cell>>
mainVars == <<sheets, sheetNum, prevColNames, colNames, written, fileText>>
requestVars ==
    <<defaultColNames, prevColNamesArg, reuseOffered, usePrevColNames,
      requests, typed, answers, returnedNames>>
stringVars == <<numberText, formatted, filename, outDefaults>>
vars == <<pc, rowVars, matrixVars, cellVars, mainVars, requestVars, stringVars>>

(***************************************************************************)
(* Bounds                                                                  *)
(***************************************************************************)
MaxCells == 3       \* longest row handed to toCsv
MaxRows == 3        \* most rows of a table
MaxCols == 2        \* most columns of a table
MaxLines == 2       \* most lines of a sheet's csv text
MaxLineLen == 3     \* longest line of a sheet's csv text
MaxTextLen == 3     \* longest display text of a cell
MaxSheets == 2      \* most sheets the operator selects
MaxSheetLines == 2  \* most lines of a sheet that main processes
MaxNameLen == 3     \* longest column name typed at a single question
MaxWidth == 11      \* most columns whose answers are put in order
MaxHeaderLen == 4   \* longest text of a header cell a name is derived from
MaxHeaderRows == 2  \* most rows of a header a name is derived from
MaxSheetNameLen == 3    \* longest sheet name a file name is made from

SeqsUpTo(S, n) == UNION {[1..k -> S] : k \in 0..n}

(***************************************************************************)
(* JavaScript values                                                       *)
(***************************************************************************)
\* the value read from an array slot that was never written
undefined == <<"undefined", "undefined">>

\* an array of names that is undefined (`let prevColNames;`, a defaultColNames
\* argument that is not supplied)
undefinedNames == <<undefined>>

\* truthiness of a cell: undefined and '' are falsy
Truthy(c) == c # undefined /\ c # <<>>

\* array read, table[i][j] with 0-based j = k - 1
At(arr, k) == IF k \in 1..Len(arr) THEN arr[k] ELSE undefined

RECURSIVE Join(_, _)
Join(strs, sep) ==
    IF Len(strs) = 0 THEN <<>>
    ELSE IF Len(strs) = 1 THEN strs[1]
    ELSE strs[1] \o sep \o Join(Tail(strs), sep)

RECURSIVE replaceAll(_, _, _)
\* String.prototype.replaceAll for a one-character pattern
replaceAll(str, char, by) ==
    IF Len(str) = 0 THEN <<>>
    ELSE (IF Head(str) = char THEN by ELSE <<Head(str)>>) \o replaceAll(Tail(str), char, by)

\* Array.prototype.filter((cell) => cell)
filterTruthy(arr) == SelectSeq(arr, Truthy)

\* Array.prototype.slice(from, to) for 0 <= from and to <= length
slice(arr, from, to) == SubSeq(arr, from + 1, to)

\* A number is m / 10^e, or NaN
NaN == [nan |-> TRUE, m |-> 0, e |-> 0]

RECURSIVE Normal(_, _)
Normal(m, e) ==
    IF e > 0 /\ m % 10 = 0 THEN Normal(m \div 10, e - 1)
    ELSE [nan |-> FALSE, m |-> m, e |-> e]

Digits == <<"0", "1", "2", "3", "4", "5", "6", "7", "8", "9">>

IsDigit(char) == \E d \in 1..10 : Digits[d] = char

DigitValue(char) == (CHOOSE d \in 1..10 : Digits[d] = char) - 1

RECURSIVE DigitsValue(_, _)
DigitsValue(str, acc) ==
    IF Len(str) = 0 THEN acc
    ELSE DigitsValue(Tail(str), 10 * acc + DigitValue(Head(str)))

WhiteSpace == {" ", "\n", "\r", "\t"}

RECURSIVE TrimStart(_)
TrimStart(str) ==
    IF Len(str) > 0 /\ Head(str) \in WhiteSpace THEN TrimStart(Tail(str)) ELSE str

RECURSIVE TrimEnd(_)
TrimEnd(str) ==
    IF Len(str) > 0 /\ str[Len(str)] \in WhiteSpace
    THEN TrimEnd(SubSeq(str, 1, Len(str) - 1)) ELSE str

\* String.prototype.trim
trim(str) == TrimEnd(TrimStart(str))

\* The unary plus on a string (ToNumber) for unsigned decimal literals: white
\* space around the literal is skipped, the empty string is 0, digits with at
\* most one decimal point are a number, and every other text is NaN.
ToNumber(str) ==
    LET s == trim(str)
        dots == {k \in 1..Len(s) : s[k] = "."}
        ds == SelectSeq(s, IsDigit)
    IN  IF Len(s) = 0 THEN Normal(0, 0)
        ELSE IF \E k \in 1..Len(s) : ~IsDigit(s[k]) /\ s[k] # "." THEN NaN
        ELSE IF Cardinality(dots) > 1 \/ Len(ds) = 0 THEN NaN
        ELSE IF dots = {} THEN Normal(DigitsValue(ds, 0), 0)
        ELSE Normal(DigitsValue(ds, 0), Len(s) - (CHOOSE k \in dots : TRUE))

\* The typed value of a cell (cell.v): a number, a string or undefined
numberValue(n) == [type |-> "number", num |-> n, str |-> <<>>]

stringValue(str) == [type |-> "string", num |-> NaN, str |-> str]

undefinedValue == [type |-> "undefined", num |-> NaN, str |-> <<>>]

\* truthiness of a typed value: 0, NaN, '' and undefined are falsy
TruthyValue(v) ==
    \/ v.type = "number" /\ ~v.num.nan /\ v.num.m # 0
    \/ v.type = "string" /\ v.str # <<>>

(***************************************************************************)
(* lib/utils.ts                                                            *)
(***************************************************************************)
isQuotationMark(char) == char = "\""

isSeparator(char) == char = ","

isSpecial(char) == isQuotationMark(char) \/ isSeparator(char)

\* `if (!row[idx]) row[idx] = ''`: the slot idx is created when it is missing
\* (an empty string is falsy too and is overwritten by itself)
TouchCell(rw, idx) == IF Len(rw) = idx THEN Append(rw, <<>>) ELSE rw

\* the iteration without the `continue` after the toggle: the quotation mark
\* is appended to the cell as well
toRowStepKeepQuotes(st, char) ==
    IF isSpecial(char) /\ isSeparator(char) /\ ~st.withinQuotes
    THEN [st EXCEPT !.row = TouchCell(@, st.idx), !.idx = @ + 1]
    ELSE [st EXCEPT !.row = [TouchCell(@, st.idx) EXCEPT ![st.idx + 1] = @ \o <<char>>],
                    !.withinQuotes = IF isQuotationMark(char) THEN ~@ ELSE @]

\* one iteration of the for loop of toRow
toRowStep(st, char) ==
    IF isSpecial(char) /\ isQuotationMark(char)
    THEN [st EXCEPT !.withinQuotes = ~@]
    ELSE IF isSpecial(char) /\ isSeparator(char) /\ ~st.withinQuotes
    THEN [st EXCEPT !.row = TouchCell(@, st.idx), !.idx = @ + 1]
    ELSE [st EXCEPT !.row = [TouchCell(@, st.idx) EXCEPT ![st.idx + 1] = @ \o <<char>>]]

RECURSIVE toRowScan(_, _, _)
toRowScan(ln, i, st) ==
    IF i > Len(ln) THEN st
    ELSE toRowScan(ln, i + 1, toRowStep(st, ln[i]))

\* const row = []; let withinQuotes = false; let idx = 0;
scanStart == [row |-> <<>>, idx |-> 0, withinQuotes |-> FALSE]

toRow(ln) == toRowScan(ln, 1, scanStart).row

\* `${cell}`: the text a template literal makes of a cell
templateText(c) ==
    IF c = undefined THEN <<"u", "n", "d", "e", "f", "i", "n", "e", "d">> ELSE c

\* the quotes inside a cell are doubled
toCsvRowEscaped(rw) ==
    Join([k \in 1..Len(rw) |->
            <<"\"">> \o replaceAll(templateText(rw[k]), "\"", <<"\"", "\"">>) \o <<"\"">>],
         <<",">>)

\* row.map((cell) => `"${cell}"`).join(',')
toCsvRow(rw) ==
    Join([k \in 1..Len(rw) |-> <<"\"">> \o templateText(rw[k]) \o <<"\"">>], <<",">>)

\* only the first row of the table is serialized
toCsvFirstRow(tbl) == IF Len(tbl) = 0 THEN <<>> ELSE toCsvRow(tbl[1])

\* table.map(...).join('\n')
toCsv(tbl) == Join([k \in 1..Len(tbl) |-> toCsvRow(tbl[k])], <<"\n">>)

\* transpose that takes the column count from the row count
transposeSquare(tbl) ==
    IF Len(tbl) = 0 THEN tbl
    ELSE LET nRows == Len(tbl)
             nCols == Len(tbl)
         IN  [j \in 1..nCols |-> [i \in 1..nRows |-> At(tbl[i], j)]]

\* transpose that collects into column j only the rows that have a cell j
transposePush(tbl) ==
    IF Len(tbl) = 0 THEN tbl
    ELSE LET nRows == Len(tbl)
             nCols == Len(tbl[1])
             having(j) == SelectSeq([i \in 1..nRows |-> tbl[i]], LAMBDA rw : j <= Len(rw))
         IN  [j \in 1..nCols |-> [i \in 1..Len(having(j)) |-> having(j)[i][j]]]

transpose(tbl) ==
    IF Len(tbl) = 0 THEN tbl
    ELSE LET nRows == Len(tbl)
             nCols == Len(tbl[1])
         IN  [j \in 1..nCols |-> [i \in 1..nRows |-> At(tbl[i], j)]]

hasEntry(rw) == \E k \in 1..Len(rw) : Truthy(rw[k])

\* the newlines are replaced, the carriage returns stay
removeNewlinesOnly(str) == replaceAll(str, "\n", <<" ">>)

\* str.replaceAll('\n', ' ').replaceAll('\r', '')
removeLineBreaks(str) == replaceAll(replaceAll(str, "\n", <<" ">>), "\r", <<>>)

\* the separators replaced one after the other, without the placeholder
toEnglishFormatNoPlaceholder(str) == replaceAll(replaceAll(str, ",", <<".">>), ".", <<",">>)

\* str.replaceAll(',', '@').replaceAll('.', ',').replaceAll('@', '.')
toEnglishFormat(str) ==
    replaceAll(replaceAll(replaceAll(str, ",", <<"@">>), ".", <<",">>), "@", <<".">>)

(***************************************************************************)
(* split                                                                   *)
(***************************************************************************)
\* Array.prototype.findIndex, 0-based, -1 when no element passes the test;
\* passes[k] is the outcome of the test on element k
findIndex(passes) ==
    IF \E k \in 1..Len(passes) : passes[k]
    THEN (CHOOSE k \in 1..Len(passes) : passes[k] /\ \A n \in 1..(k - 1) : ~passes[n]) - 1
    ELSE -1

\* the copy is searched in the order of the table
reverseNot(arr) == arr

\* Array.prototype.reverse on a copy
reverse(arr) == [k \in 1..Len(arr) |-> arr[Len(arr) + 1 - k]]

null == -1

\* `x || 0`: null and 0 are both falsy
OrZero(x) == IF x = null \/ x = 0 THEN 0 ELSE x

\* row.filter((cell) => cell).length === nCols
isComplete(rw, nCols) == Len(filterTruthy(rw)) = nCols

\* the test for a number passes for every row
hasNumberAlways(rw) == TRUE

\* row.some((cell) => !Number.isNaN(+cell.replaceAll(',', '')))
hasNumber(rw) == \E k \in 1..Len(rw) : ~ToNumber(replaceAll(rw[k], ",", <<>>)).nan

findStartIndex(tbl, nCols, requireNumber) ==
    LET idx == findIndex([k \in 1..Len(tbl) |->
                   isComplete(tbl[k], nCols) /\ (~requireNumber \/ hasNumber(tbl[k]))])
    IN  IF idx >= 0 THEN idx ELSE null

\* new Array(nCols).fill('')
blankRow(nCols) == [j \in 1..nCols |-> <<>>]

\* split that leaves an empty section empty
orBlankNever(section, nCols) == section

\* `if (section.length === 0) section = [new Array(nCols).fill('')]`
orBlank(section, nCols) == IF Len(section) = 0 THEN <<blankRow(nCols)>> ELSE section

\* the body of split below its guard; reading table[0].length of a table
\* without rows raises a TypeError
splitBody(tbl) ==
    IF Len(tbl) = 0 THEN [header |-> <<>>, data |-> <<>>, error |-> "TypeError"]
    ELSE LET nRows == Len(tbl)
             nCols == Len(tbl[1])
             firstRow == OrZero(findStartIndex(tbl, nCols, TRUE))
             lastRow == nRows - 1 - OrZero(findStartIndex(reverse(tbl), nCols, FALSE))
         IN  [header |-> orBlank(slice(tbl, 0, firstRow), nCols),
              data |-> orBlank(slice(tbl, firstRow, lastRow + 1), nCols),
              error |-> "none"]

\* split without the guard for a table without rows
splitNoGuard(tbl) == splitBody(tbl)

\* split of the current cli (types.d.ts 75-110)
split(tbl) ==
    IF Len(tbl) = 0 THEN [header |-> <<>>, data |-> <<>>, error |-> "none"]
    ELSE splitBody(tbl)

\* end of the data block searched from the top instead of from the bottom
lastCompleteRowFromTop(tbl, nCols) ==
    Len(tbl) - 1 - OrZero(findStartIndex(tbl, nCols, FALSE))

\* the end of the data block in the split that requires no number
lastCompleteRow(tbl, nCols) ==
    Len(tbl) - 1 - OrZero(findStartIndex(reverse(tbl), nCols, FALSE))

\* split of the cli that requires no number (types.d.ts 281-304)
splitDefault(tbl) ==
    IF Len(tbl) = 0 THEN [header |-> <<>>, data |-> <<>>, error |-> "none"]
    ELSE LET nCols == Len(tbl[1])
             firstRow == OrZero(findStartIndex(tbl, nCols, FALSE))
             lastRow == lastCompleteRow(tbl, nCols)
         IN  [header |-> slice(tbl, 0, firstRow),
              data |-> slice(tbl, firstRow, lastRow + 1),
              error |-> "none"]

(***************************************************************************)
(* lib/request.ts: requestColumnNames                                      *)
(***************************************************************************)
\* String.prototype.includes
includes(str, sub) ==
    \E k \in 0..(Len(str) - Len(sub)) : SubSeq(str, k + 1, k + Len(sub)) = sub

\* String.prototype.replace with a string pattern: the first occurrence only
RECURSIVE replaceFirst(_, _, _)
replaceFirst(str, char, by) ==
    IF Len(str) = 0 THEN <<>>
    ELSE IF Head(str) = char THEN by \o Tail(str)
    ELSE <<Head(str)>> \o replaceFirst(Tail(str), char, by)

UpperCase == <<"A", "B", "C", "D", "E", "F", "G", "H", "I", "J", "K", "L", "M",
               "N", "O", "P", "Q", "R", "S", "T", "U", "V", "W", "X", "Y", "Z">>

LowerCase == <<"a", "b", "c", "d", "e", "f", "g", "h", "i", "j", "k", "l", "m",
               "n", "o", "p", "q", "r", "s", "t", "u", "v", "w", "x", "y", "z">>

\* String.prototype.toLowerCase
toLowerCase(str) ==
    [k \in 1..Len(str) |->
        IF \E n \in 1..26 : UpperCase[n] = str[k]
        THEN LowerCase[CHOOSE n \in 1..26 : UpperCase[n] = str[k]]
        ELSE str[k]]

\* String(n) for a natural number
RECURSIVE toString(_)
toString(n) ==
    IF n < 10 THEN <<Digits[n + 1]>>
    ELSE toString(n \div 10) \o <<Digits[(n % 10) + 1]>>

\* chalk.dim.italic('ignored'): the text between the escape codes that switch
\* dim and italic on and off; one escape code is one element
ignoredMarker ==
    <<"ESC[2m", "ESC[3m", "i", "g", "n", "o", "r", "e", "d", "ESC[23m", "ESC[22m">>

\* the reuse question is shown whenever previous names exist
offerReuseDespiteDefaults(defaults, prev) == prev # undefinedNames

\* when: () => !defaultColNames && prevColNames
offerReuse(defaults, prev) == defaults = undefinedNames /\ prev # undefinedNames

\* the questions follow the rows of the header instead of its columns
headingsOfRows(hdr) == hdr

\* utils.transpose(header): one heading, and one question, per column
headings(hdr) == transpose(hdr)

\* heading.filter(...).map((cell) => cell.replace('\r', '').trim()).join(' / ')
derivedName(heading) ==
    LET cells == filterTruthy(heading)
    IN  Join([k \in 1..Len(cells) |-> trim(replaceFirst(cells[k], "\r", <<>>))],
             <<" ", "/", " ">>)

\* defaultColNames ? defaultColNames[j] : heading.filter(...)...join(' / ')
defaultValue(heading, defaults, j) ==
    IF defaults # undefinedNames THEN At(defaults, j + 1) ELSE derivedName(heading)

\* default: defaultValue || `col_${j + 1}`
questionDefault(heading, defaults, j) ==
    IF Truthy(defaultValue(heading, defaults, j))
    THEN defaultValue(heading, defaults, j)
    ELSE <<"c", "o", "l", "_">> \o toString(j + 1)

\* the filter of the earlier cli (types.d.ts 544-545):
\* colName.toLowerCase() === 'no' ? chalk.dim.italic('ignored') : colName
colNameFilterLegacy(colName) ==
    IF toLowerCase(colName) = <<"n", "o">> THEN ignoredMarker ELSE colName

\* the filter with the sentinel 'no' in place of '-'
colNameFilterNo(colName) == colNameFilterLegacy(colName)

\* filter: (colName) => colName.toLowerCase() === '-' ? ignored : colName
colNameFilter(colName) ==
    IF toLowerCase(colName) = <<"-">> THEN ignoredMarker ELSE colName

\* indexedAnswers.sort() without a comparison function: the entries in the
\* order of the decimal text of their index, 10 before 2
RECURSIVE sortByText(_)
sortByText(entries) ==
    IF Len(entries) <= 1 THEN entries
    ELSE LET rank(n) == IF n < 10 THEN 20 * n ELSE 20 * (n \div 10) + (n % 10) + 1
             last == entries[Len(entries)]
             rest == sortByText(SubSeq(entries, 1, Len(entries) - 1))
             before == SelectSeq(rest, LAMBDA e : rank(e[1]) <= rank(last[1]))
             after == SelectSeq(rest, LAMBDA e : rank(e[1]) > rank(last[1]))
         IN  before \o <<last>> \o after

\* indexedAnswers.sort((a, b) => a[0] - b[0]), a stable insertion of each
\* entry <<index, value>> behind the entries with an index not larger
RECURSIVE sortByIndex(_)
sortByIndex(entries) ==
    IF Len(entries) <= 1 THEN entries
    ELSE LET last == entries[Len(entries)]
             rest == sortByIndex(SubSeq(entries, 1, Len(entries) - 1))
             before == SelectSeq(rest, LAMBDA e : e[1] <= last[1])
             after == SelectSeq(rest, LAMBDA e : e[1] > last[1])
         IN  before \o <<last>> \o after

\* name: `colName-${j}`
questionName(j) == <<"c", "o", "l", "N", "a", "m", "e", "-">> \o toString(j)

\* request.ts 170-193: one input question per column of the header, with its
\* name and the default it offers
questions(hdr, defaults) ==
    LET hs == headings(hdr)
    IN  [k \in 1..Len(hs) |->
            [name |-> questionName(k - 1),
             default |-> questionDefault(hs[k], defaults, k - 1)]]

\* the answer prompt records for an input question: the filter applied to the
\* text typed, or to the default when nothing is typed
answerTo(question, text) ==
    colNameFilter(IF text = <<>> THEN question.default ELSE text)

\* await prompt(requests): the answers in the order of the questions
recordedAnswers(qs, texts) ==
    [k \in 1..Len(qs) |-> <<qs[k].name, answerTo(qs[k], texts[k])>>]

\* String.prototype.replace with a string pattern of several characters
replaceString(str, sub, by) ==
    LET at == {k \in 0..(Len(str) - Len(sub)) : SubSeq(str, k + 1, k + Len(sub)) = sub}
    IN  IF at = {} THEN str
        ELSE LET k == CHOOSE k \in at : \A n \in at : k <= n
             IN  SubSeq(str, 1, k) \o by \o SubSeq(str, k + Len(sub) + 1, Len(str))

\* +key.replace('colName-', '')
answerIndex(key) ==
    ToNumber(replaceString(key, <<"c", "o", "l", "N", "a", "m", "e", "-">>, <<>>)).m

\* Object.entries(answers).map(([key, value]) => [+key.replace(...), value])
\* followed by the sort
indexedAnswers(entries) ==
    sortByIndex([k \in 1..Len(entries) |->
                    <<answerIndex(entries[k][1]), entries[k][2]>>])

\* const colNames = indexedAnswers.map(([, value]) => value)
answeredNames(entries) ==
    [k \in 1..Len(entries) |-> indexedAnswers(entries)[k][2]]

\* the names requestColumnNames returns on the path that asks per column,
\* entered[k] being the text the operator entered for question k (empty: the
\* default is taken)
promptedNames(hdr, defaults, entered) ==
    answeredNames(recordedAnswers(questions(hdr, defaults), entered))

(***************************************************************************)
(* main: assembly (types.d.ts 190-196)                                     *)
(***************************************************************************)
\* data.unshift(names); transpose, drop the columns to ignore, transpose back
assemble(rows, names) ==
    LET withNames == <<names>> \o rows
    IN  transpose(SelectSeq(transpose(withNames),
                            LAMBDA col : ~includes(col[1], <<"i", "g", "n", "o", "r", "e", "d">>)))

\* the columns to ignore are removed from the name array itself
namesFilteredInPlace(rows, names) ==
    SelectSeq(names, LAMBDA name : ~includes(name, <<"i", "g", "n", "o", "r", "e", "d">>))

\* the name array after the assembly: it is row 0 of data from the unshift
\* on, and transpose and filter read it and write to new arrays only
namesAfterAssembly(rows, names) == names

\* the previous names are never updated
stalePrevColNames(prev, names) == prev

\* prevColNames = colNames[sheetName]
nextPrevColNames(prev, names) == names

(***************************************************************************)
(* Round trip of one row through toCsv and toRow                           *)
(***************************************************************************)
CellChars == {"a", ",", "\""}

RowCells == SeqsUpTo(CellChars, 1)

Rows == SeqsUpTo(RowCells, MaxCells)

IdleScan == scanned = 0 /\ scanState = scanStart

IdleRow == r = <<>> /\ line = <<>> /\ row = <<>> /\ IdleScan

\* an absent cell of the sheet (`sheet[col + row]` of an address never set)
absentCell == [t |-> "absent", w |-> undefined, v |-> undefinedValue]

IdleString ==
    numberText = <<>> /\ formatted = <<>> /\ filename = <<>> /\ outDefaults = <<>>

IdleCell ==
    /\ isGermanFormat = FALSE
    /\ sheetCell = absentCell
    /\ cell = absentCell
    /\ IdleString

IdleRequest ==
    /\ defaultColNames = undefinedNames
    /\ prevColNamesArg = undefinedNames
    /\ reuseOffered = FALSE
    /\ usePrevColNames = FALSE
    /\ requests = <<>>
    /\ typed = <<>>
    /\ answers = <<>>
    /\ returnedNames = undefinedNames

IdleMain ==
    /\ sheets = <<>>
    /\ sheetNum = 0
    /\ prevColNames = undefinedNames
    /\ colNames = <<>>
    /\ written = <<>>
    /\ fileText = <<>>
    /\ IdleRequest

IdleMatrix ==
    /\ csv = <<>>
    /\ table = <<>>
    /\ transposed = <<>>
    /\ header = <<>>
    /\ data = <<>>
    /\ error = "none"

InitRow ==
    /\ pc = "row"
    /\ r \in Rows
    /\ line = <<>>
    /\ row = <<>>
    /\ IdleScan
    /\ IdleMatrix
    /\ IdleCell
    /\ IdleMain

WriteRow ==
    /\ pc = "row"
    /\ line' = toCsv(<<r>>)
    /\ pc' = "line"
    /\ UNCHANGED <<r, row, scanned, scanState, matrixVars, cellVars, stringVars, mainVars, requestVars>>

ParseLine ==
    /\ pc = "line"
    /\ row' = toRow(line)
    /\ pc' = "parsed"
    /\ UNCHANGED <<r, line, scanned, scanState, matrixVars, cellVars, stringVars, mainVars, requestVars>>

NextRow == WriteRow \/ ParseLine

SpecRow == InitRow /\ [][NextRow]_vars

NoQuote(rw) == \A k \in 1..Len(rw) : \A n \in 1..Len(rw[k]) : ~isQuotationMark(rw[k][n])

\* C1: for every row r whose cells contain no double quote, toRow applied to
\* the line made by quoting each cell and joining with commas returns r.
C1_RoundTrip == (pc = "parsed" /\ NoQuote(r)) => row = r

(***************************************************************************)
(* transpose and split applied to a rectangular table                      *)
(***************************************************************************)
TableCells == {<<>>, <<"a">>, <<"1">>, undefined}

Tables == UNION {[1..n -> [1..m -> TableCells]] : n \in 0..MaxRows, m \in 0..MaxCols}

InitMatrix ==
    /\ pc = "table"
    /\ table \in Tables
    /\ csv = <<>>
    /\ transposed = <<>>
    /\ header = <<>>
    /\ data = <<>>
    /\ error = "none"
    /\ IdleRow
    /\ IdleCell
    /\ IdleMain

Transpose ==
    /\ pc = "table"
    /\ transposed' = transpose(table)
    /\ pc' = "transposed"
    /\ UNCHANGED <<csv, table, header, data, error, rowVars, cellVars, stringVars, mainVars, requestVars>>

TransposeBack ==
    /\ pc = "transposed"
    /\ transposed' = transpose(transposed)
    /\ pc' = "restored"
    /\ UNCHANGED <<csv, table, header, data, error, rowVars, cellVars, stringVars, mainVars, requestVars>>

Split ==
    /\ pc = "table"
    /\ LET res == split(table)
       IN  header' = res.header /\ data' = res.data /\ error' = res.error
    /\ pc' = "split"
    /\ UNCHANGED <<csv, table, transposed, rowVars, cellVars, stringVars, mainVars, requestVars>>

SplitDefault ==
    /\ pc = "table"
    /\ LET res == splitDefault(table)
       IN  header' = res.header /\ data' = res.data /\ error' = res.error
    /\ pc' = "splitDefault"
    /\ UNCHANGED <<csv, table, transposed, rowVars, cellVars, stringVars, mainVars, requestVars>>

NextMatrix == Transpose \/ TransposeBack \/ Split \/ SplitDefault

SpecMatrix == InitMatrix /\ [][NextMatrix]_vars

(***************************************************************************)
(* Trimming of the grid parsed from a sheet's csv text (main, 168-173)     *)
(***************************************************************************)
LineChars == {"a", ",", "\""}

Lines == SeqsUpTo(LineChars, MaxLineLen)

\* csv.split(/\r\n|\r|\n/) has at least one line
Csvs == UNION {[1..n -> Lines] : n \in 1..MaxLines}

\* csv.split(...).map(utils.toRow)
parseRows(lns) == [k \in 1..Len(lns) |-> toRow(lns[k])]

\* table.filter(utils.hasEntry)
dropEmptyRows(tbl) == SelectSeq(tbl, hasEntry)

\* utils.transpose(utils.transpose(table).filter(utils.hasEntry))
dropEmptyCols(tbl) == transpose(SelectSeq(transpose(tbl), hasEntry))

InitTrim ==
    /\ pc = "csv"
    /\ csv \in Csvs
    /\ table = <<>>
    /\ transposed = <<>>
    /\ header = <<>>
    /\ data = <<>>
    /\ error = "none"
    /\ IdleRow
    /\ IdleCell
    /\ IdleMain

ParseRows ==
    /\ pc = "csv"
    /\ table' = parseRows(csv)
    /\ pc' = "rows"
    /\ UNCHANGED <<csv, transposed, header, data, error, rowVars, cellVars, stringVars, mainVars, requestVars>>

DropEmptyRows ==
    /\ pc = "rows"
    /\ table' = dropEmptyRows(table)
    /\ pc' = "nonEmptyRows"
    /\ UNCHANGED <<csv, transposed, header, data, error, rowVars, cellVars, stringVars, mainVars, requestVars>>

DropEmptyCols ==
    /\ pc = "nonEmptyRows"
    /\ table' = dropEmptyCols(table)
    /\ pc' = "trimmed"
    /\ UNCHANGED <<csv, transposed, header, data, error, rowVars, cellVars, stringVars, mainVars, requestVars>>

NextTrim == ParseRows \/ DropEmptyRows \/ DropEmptyCols

SpecTrim == InitTrim /\ [][NextTrim]_vars

(***************************************************************************)
(* Properties of transpose, split and trimming                             *)
(***************************************************************************)
IsRectangular(tbl) == \A i \in 1..Len(tbl) : Len(tbl[i]) = Len(tbl[1])

\* C2 as stated: transpose(transpose(T)) = T for every rectangular table T,
\* the empty table and tables with rows but no columns included.
C2_Original == pc = "restored" => transposed = table

\* C2 amended: transpose(transpose(T)) = T for every rectangular table T that
\* is empty or has at least one column.
C2_Involution ==
    (pc = "restored" /\ (Len(table) = 0 \/ Len(table[1]) > 0)) => transposed = table

C2_Witness ==
    /\ pc = "restored"
    /\ Len(table) = 2
    /\ Len(table[1]) = 2
    /\ table[1][2] # table[2][1]
    /\ transposed = table

\* C6 as stated: split returns a header of at least one row and a data block
\* of at least one row for every input table, the table without rows included.
C6_Original == pc = "split" => (Len(header) >= 1 /\ Len(data) >= 1)

\* C6 amended: for every table with at least one row, split returns a header
\* of at least one row and a data block of at least one row; a header that
\* would be empty is one row of nCols empty strings.
C6_NonDegenerate ==
    (pc = "split" /\ Len(table) > 0) =>
        /\ Len(header) >= 1
        /\ Len(data) >= 1
        /\ \E f \in 0..(Len(table) - 1) : \E l \in f..(Len(table) - 1) :
              /\ data = SubSeq(table, f + 1, l + 1)
              /\ header = IF f = 0 THEN <<[j \in 1..Len(table[1]) |-> <<>>]>>
                                   ELSE SubSeq(table, 1, f)

C6_Witness ==
    /\ pc = "split"
    /\ Len(table) = 2
    /\ Len(table[1]) = 2
    /\ header = << << <<>>, <<>> >> >>
    /\ data = table

AllCellsFilled(rw) == \A j \in 1..Len(rw) : rw[j] # <<>> /\ rw[j] # undefined

CompleteRows == {i \in 1..Len(table) : AllCellsFilled(table[i])}

FirstComplete ==
    IF CompleteRows = {} THEN 1
    ELSE CHOOSE i \in CompleteRows : \A k \in CompleteRows : i <= k

LastComplete ==
    IF CompleteRows = {} THEN Len(table)
    ELSE CHOOSE i \in CompleteRows : \A k \in CompleteRows : i >= k

\* C7: for a non-empty rectangular table the split that requires no number
\* returns header = the rows before the first complete row (none if no row is
\* complete) and data = the rows from there through the last complete row
\* (the last row if no row is complete); header followed by data is the
\* prefix of the table ending there and later rows are discarded.
C7_SplitDefault ==
    (pc = "splitDefault" /\ Len(table) > 0) =>
        /\ header = SubSeq(table, 1, FirstComplete - 1)
        /\ data = SubSeq(table, FirstComplete, LastComplete)
        /\ header \o data = SubSeq(table, 1, LastComplete)
        /\ Len(header) + Len(data) = LastComplete

C7_Witness ==
    /\ pc = "splitDefault"
    /\ Len(table) = 3
    /\ CompleteRows = {2}
    /\ header = <<table[1]>>
    /\ data = <<table[2]>>

\* C8: split applied to a table without rows returns an empty header and an
\* empty data block and raises no error (it does not read the first row).
C8_EmptyTable ==
    (pc = "split" /\ Len(table) = 0) => (header = <<>> /\ data = <<>> /\ error = "none")

C8_Witness == pc = "split" /\ table = <<>> /\ header = <<>> /\ data = <<>> /\ error = "none"

\* C9: after the trimming stage all rows of the table have the same length,
\* for every grid parsed by toRow, also when the parsed rows differ in length.
C9_RectangularAfterTrim == pc = "trimmed" => IsRectangular(table)

C9_Witness ==
    /\ pc = "trimmed"
    /\ Len(csv) = 2
    /\ Len(toRow(csv[1])) > Len(toRow(csv[2]))
    /\ hasEntry(toRow(csv[2]))
    /\ Len(table) = 2
    /\ Len(table[1]) = 2
    /\ table[2][2] = undefined

(***************************************************************************)
(* The cell transform of main (types.d.ts 141-160)                         *)
(***************************************************************************)
transformCell(c, german) ==
    IF c = absentCell THEN c
    ELSE IF c.t = "s" THEN
        [c EXCEPT !.w = IF Truthy(@) THEN removeLineBreaks(@) ELSE @,
                  !.v = IF TruthyValue(@) /\ @.type = "string"
                        THEN stringValue(removeLineBreaks(@.str)) ELSE @]
    ELSE IF german /\ c.t = "n" THEN
        IF Truthy(c.w)
        THEN [c EXCEPT !.w = toEnglishFormat(@),
                       !.v = IF TruthyValue(@)
                             THEN numberValue(ToNumber(toEnglishFormat(c.w))) ELSE @]
        ELSE c
    ELSE c

NumberChars == {"0", "1", ".", ","}

\* the display text of the example of the specification, 1.234,56
GermanExample == <<"1", ".", "2", "3", "4", ",", "5", "6">>

\* the number a German display text denotes: '.' groups thousands, ',' is the
\* decimal separator
germanValue(str) == ToNumber(replaceAll(replaceAll(str, ".", <<>>), ",", <<".">>))

\* a number formatted the German way: digits, either ungrouped or in groups of
\* three separated by '.', and optionally ',' and decimals
IsGermanNumber(str) ==
    LET commas == {k \in 1..Len(str) : str[k] = ","}
        intLen == IF commas = {} THEN Len(str) ELSE (CHOOSE k \in commas : TRUE) - 1
        grouped == \E k \in 1..intLen : str[k] = "."
    IN  /\ Cardinality(commas) <= 1
        /\ intLen > 0
        /\ commas # {} => Len(str) > intLen + 1
        /\ \A k \in (intLen + 2)..Len(str) : IsDigit(str[k])
        /\ \A k \in 1..intLen :
              IF grouped /\ (intLen - k) % 4 = 3 THEN str[k] = "." ELSE IsDigit(str[k])

NumberTexts == {str \in SeqsUpTo(NumberChars, MaxTextLen) \cup {GermanExample} :
                   IsGermanNumber(str)}

StringChars == {"a", "\n", "\r"}

StringTexts == SeqsUpTo(StringChars, MaxTextLen)

\* numeric cells carry the number and its formatted text, string cells the
\* text; the formatted text can be missing
SheetCells ==
    {absentCell}
    \cup {[t |-> "n", w |-> str, v |-> numberValue(germanValue(str))] : str \in NumberTexts}
    \cup {[t |-> "n", w |-> undefined, v |-> numberValue(Normal(15, 1))]}
    \cup {[t |-> "s", w |-> str, v |-> stringValue(str)] : str \in StringTexts}
    \cup {[t |-> "s", w |-> undefined, v |-> stringValue(str)] : str \in StringTexts}

InitCell ==
    /\ pc = "cell"
    /\ isGermanFormat \in BOOLEAN
    /\ sheetCell \in SheetCells
    /\ cell = absentCell
    /\ IdleString
    /\ IdleRow
    /\ IdleMatrix
    /\ IdleMain

TransformCell ==
    /\ pc = "cell"
    /\ cell' = transformCell(sheetCell, isGermanFormat)
    /\ pc' = "transformed"
    /\ UNCHANGED <<isGermanFormat, sheetCell, rowVars, matrixVars, mainVars, requestVars,
                   stringVars>>

NextCell == TransformCell

SpecCell == InitCell /\ [][NextCell]_vars

\* the number a display text in English format denotes: ',' groups thousands
englishValue(str) == ToNumber(replaceAll(str, ",", <<>>))

\* C5: with locale conversion enabled a numeric cell with display text
\* 1.234,56 ends with display text 1,234.56 and typed value 1234.56, and in
\* general the recomputed typed value is the number the rewritten display
\* text denotes, thousands separators included.
C5_LocaleValue ==
    (pc = "transformed" /\ isGermanFormat /\ sheetCell.t = "n"
        /\ Truthy(sheetCell.w) /\ TruthyValue(sheetCell.v)) =>
        /\ cell.v = numberValue(englishValue(cell.w))
        /\ sheetCell.w = GermanExample =>
              /\ cell.w = <<"1", ",", "2", "3", "4", ".", "5", "6">>
              /\ cell.v = numberValue(Normal(123456, 2))

(***************************************************************************)
(* main: the loop over the selected sheets (types.d.ts 131-210)            *)
(***************************************************************************)
SheetNames == <<"Sheet1", "Sheet2", "Sheet3", "Sheet4">>

\* the lines of the sheets: ,h  1,2  3  a,b
SheetLines ==
    {<<",", "h">>, <<"1", ",", "2">>, <<"3">>, <<"a", ",", "b">>}

\* the csv text of an empty sheet is one empty line
SheetCsvs == {<< <<>> >>} \cup UNION {[1..n -> SheetLines] : n \in 1..MaxSheetLines}

\* config.colNames ? config.colNames[sheetName] : undefined
DefaultNames == {undefinedNames, << <<"d">> >>}

\* what the operator types as a column name; the empty text takes the default
EnteredNames == {<<>>, <<"x">>, <<"-">>, <<"i", "g", "n", "o", "r", "e", "d">>}

sheetName == sheets[sheetNum + 1]

InitMain ==
    /\ pc = "loop"
    /\ sheets \in {SubSeq(SheetNames, 1, n) : n \in 1..MaxSheets}
    /\ sheetNum = 0
    /\ prevColNames = undefinedNames
    /\ colNames = <<>>
    /\ written = <<>>
    /\ fileText = <<>>
    /\ IdleRequest
    /\ IdleRow
    /\ IdleMatrix
    /\ IdleCell

\* lines 135-187: read the sheet, trim, split, call requestColumnNames
ReadSheet ==
    /\ pc = "loop"
    /\ sheetNum < Len(sheets)
    /\ \E text \in SheetCsvs, defaults \in DefaultNames :
          LET trimmed == dropEmptyCols(dropEmptyRows(parseRows(text)))
              res == split(trimmed)
          IN  /\ csv' = text
              /\ table' = trimmed
              /\ header' = res.header
              /\ data' = res.data
              /\ error' = res.error
              /\ defaultColNames' = defaults
    /\ prevColNamesArg' = prevColNames
    /\ reuseOffered' = FALSE
    /\ usePrevColNames' = FALSE
    /\ requests' = <<>>
    /\ typed' = <<>>
    /\ answers' = <<>>
    /\ returnedNames' = undefinedNames
    /\ fileText' = <<>>
    /\ pc' = "confirm"
    /\ UNCHANGED <<transposed, sheets, sheetNum, prevColNames, colNames, written,
                   rowVars, cellVars, stringVars>>

\* requestColumnNames returns names to main (lines 181-188)
Return(names) ==
    /\ colNames' = [n \in (DOMAIN colNames) \cup {sheetName} |->
                        IF n = sheetName THEN names ELSE colNames[n]]
    /\ prevColNames' = nextPrevColNames(prevColNames, names)
    /\ returnedNames' = names
    /\ pc' = "assemble"
    /\ UNCHANGED <<sheets, sheetNum, written, fileText>>

\* request.ts 159-168: the reuse question
ConfirmReuse ==
    /\ pc = "confirm"
    /\ reuseOffered' = offerReuse(defaultColNames, prevColNamesArg)
    /\ \E isConfirmed \in (IF offerReuse(defaultColNames, prevColNamesArg)
                             THEN BOOLEAN ELSE {FALSE}) :
          /\ usePrevColNames' = isConfirmed
          /\ IF isConfirmed /\ prevColNamesArg # undefinedNames
             THEN Return(prevColNamesArg)
             ELSE /\ pc' = "prompt"
                  /\ UNCHANGED <<mainVars, returnedNames>>
    /\ UNCHANGED <<defaultColNames, prevColNamesArg, requests, typed, answers,
                   matrixVars, rowVars, cellVars, stringVars>>

\* request.ts 170-208: one question per column, then the sorted answers
PromptColumns ==
    /\ pc = "prompt"
    /\ requests' = questions(header, defaultColNames)
    /\ \E entered \in [1..Len(headings(header)) -> EnteredNames] :
          /\ typed' = entered
          /\ answers' = recordedAnswers(questions(header, defaultColNames), entered)
          /\ Return(promptedNames(header, defaultColNames, entered))
    /\ UNCHANGED <<defaultColNames, prevColNamesArg, reuseOffered, usePrevColNames,
                   matrixVars, rowVars, cellVars, stringVars>>

\* lines 190-196: add the names to the data, drop the ignored columns
Assemble ==
    /\ pc = "assemble"
    /\ data' = assemble(data, colNames[sheetName])
    /\ colNames' = [colNames EXCEPT ![sheetName] = namesAfterAssembly(data, @)]
    /\ prevColNames' = namesAfterAssembly(data, prevColNames)
    /\ pc' = "write"
    /\ UNCHANGED <<csv, table, transposed, header, error, sheets, sheetNum, written,
                   fileText, requestVars, rowVars, cellVars, stringVars>>

\* lines 198-209: write the csv file; the next iteration starts
WriteFile ==
    /\ pc = "write"
    /\ fileText' = toCsv(data)
    /\ written' = Append(written, sheetName)
    /\ sheetNum' = sheetNum + 1
    /\ pc' = "loop"
    /\ csv' = <<>>
    /\ table' = <<>>
    /\ header' = <<>>
    /\ data' = <<>>
    /\ defaultColNames' = undefinedNames
    /\ prevColNamesArg' = undefinedNames
    /\ reuseOffered' = FALSE
    /\ usePrevColNames' = FALSE
    /\ requests' = <<>>
    /\ typed' = <<>>
    /\ answers' = <<>>
    /\ returnedNames' = undefinedNames
    /\ UNCHANGED <<transposed, error, sheets, prevColNames, colNames, rowVars, cellVars, stringVars>>

\* lines 212-233: the loop is over
Finish ==
    /\ pc = "loop"
    /\ sheetNum = Len(sheets)
    /\ fileText' = <<>>
    /\ pc' = "done"
    /\ UNCHANGED <<matrixVars, sheets, sheetNum, prevColNames, colNames, written,
                   requestVars, rowVars, cellVars, stringVars>>

NextMain == ReadSheet \/ ConfirmReuse \/ PromptColumns \/ Assemble \/ WriteFile \/ Finish

SpecMain == InitMain /\ [][NextMain]_vars

(***************************************************************************)
(* Properties of the column naming resolver and of the loop of main        *)
(***************************************************************************)
\* C3 as stated: requestColumnNames returns as many names as the header block
\* has columns, on the per-column path and on the reuse path.
C3_Original ==
    (pc = "assemble" /\ Len(header) > 0) => Len(colNames[sheetName]) = Len(header[1])

\* C3 amended: on the path that asks per column requestColumnNames returns as
\* many names as the header block has columns; on the reuse path it returns
\* the previous names as they are, whatever the width of the header.
C3_LengthOnPromptPath ==
    /\ (pc = "assemble" /\ Len(header) > 0 /\ ~usePrevColNames) =>
            Len(colNames[sheetName]) = Len(header[1])
    /\ (pc = "assemble" /\ usePrevColNames) => colNames[sheetName] = prevColNamesArg

C3_Witness ==
    /\ pc = "assemble"
    /\ sheetNum = 1
    /\ reuseOffered
    /\ ~usePrevColNames
    /\ Len(header) = 1
    /\ Len(header[1]) = 2
    /\ Len(colNames[sheetName]) = 2
    /\ Len(prevColNamesArg) = 1

\* the cells of rw at the positions in keep, in ascending order
PickCells(rw, keep) ==
    LET positions == SelectSeq([j \in 1..Len(rw) |-> j], LAMBDA j : j \in keep)
    IN  [k \in 1..Len(positions) |-> rw[positions[k]]]

\* C4: assembly drops exactly the columns whose resolved name is the ignored
\* marker; every other column survives, in the same relative order.
C4_DropsExactlyMarked ==
    LET names == colNames[sheetName]
        rows == <<names>> \o split(table).data
        keep == {j \in 1..Len(names) : names[j] # ignoredMarker}
    IN  (pc = "write" /\ \A k \in 1..Len(rows) : Len(rows[k]) = Len(names)) =>
            data = IF keep = {} THEN <<>>
                   ELSE [k \in 1..Len(rows) |-> PickCells(rows[k], keep)]

HeaderWidth == IF header = <<>> THEN 0 ELSE Len(header[1])

\* the reuse question has been dealt with for the current sheet
ReuseDecided == pc \in {"prompt", "assemble", "write"}

\* C11: the reuse question is offered exactly when names of a previous sheet
\* exist and no default names were supplied; when the operator accepts, the
\* previous sheet's names are returned unchanged and no per-column question
\* is asked; when the question is not offered or is declined, one question
\* is asked for every column of the header.
C11_ReuseDecision ==
    ReuseDecided =>
        /\ reuseOffered <=> (sheetNum > 0 /\ defaultColNames = undefinedNames)
        /\ usePrevColNames => reuseOffered
        /\ pc = "prompt" => (~usePrevColNames /\ requests = <<>>)
        /\ (pc # "prompt" /\ usePrevColNames) =>
              /\ returnedNames = colNames[sheets[sheetNum]]
              /\ requests = <<>>
              /\ answers = <<>>
        /\ (pc # "prompt" /\ ~usePrevColNames) =>
              /\ Len(requests) = HeaderWidth
              /\ Len(answers) = HeaderWidth
              /\ \A j \in 0..(HeaderWidth - 1) :
                    \E k \in 1..Len(requests) : requests[k].name = questionName(j)

\* the operator accepted the reuse of a two-column sheet's names
C11_Witness ==
    /\ pc = "assemble"
    /\ reuseOffered
    /\ usePrevColNames
    /\ requests = <<>>
    /\ Len(returnedNames) = 2
    /\ HeaderWidth = 1

(***************************************************************************)
(* One column-name question answered by the operator                       *)
(***************************************************************************)
\* the loop of main is not running
IdleLoop ==
    /\ sheets = <<>>
    /\ sheetNum = 0
    /\ prevColNames = undefinedNames
    /\ colNames = <<>>
    /\ written = <<>>
    /\ fileText = <<>>

\* requestColumnNames called without default names and without previous names
NoReuse ==
    /\ defaultColNames = undefinedNames
    /\ prevColNamesArg = undefinedNames
    /\ reuseOffered = FALSE
    /\ usePrevColNames = FALSE

TypedChars == {"n", "o", "N", "O", "-"}

\* the texts typed: the spellings of the sentinels, texts around them, Norway
TypedNames ==
    (SeqsUpTo(TypedChars, MaxNameLen) \ {<<>>}) \cup {<<"N", "o", "r", "w", "a", "y">>}

\* the question for the only column of a header without text
InitAnswer ==
    /\ pc = "question"
    /\ requests = questions(<< <<undefined>> >>, undefinedNames)
    /\ typed \in {<<text>> : text \in TypedNames}
    /\ answers = <<>>
    /\ returnedNames = undefinedNames
    /\ NoReuse
    /\ IdleLoop
    /\ IdleRow
    /\ IdleMatrix
    /\ IdleCell

\* request.ts 196-208: the operator answers, the names are returned
AnswerQuestion ==
    /\ pc = "question"
    /\ answers' = recordedAnswers(requests, typed)
    /\ returnedNames' = answeredNames(recordedAnswers(requests, typed))
    /\ pc' = "answered"
    /\ UNCHANGED <<defaultColNames, prevColNamesArg, reuseOffered, usePrevColNames,
                   requests, typed, rowVars, matrixVars, cellVars, stringVars, mainVars>>

NextAnswer == AnswerQuestion

SpecAnswer == InitAnswer /\ [][NextAnswer]_vars

\* no and - in every letter case
SentinelSpellings == {<<"n", "o">>, <<"N", "o">>, <<"n", "O">>, <<"N", "O">>, <<"-">>}

\* C12 as stated: typing "no" or "-" in any letter case makes the resolved
\* name the ignored marker; every other text is returned as typed.
C12_Original ==
    pc = "answered" =>
        returnedNames = <<IF typed[1] \in SentinelSpellings THEN ignoredMarker ELSE typed[1]>>

\* C12: typing "-" makes the resolved name the ignored marker; every other
\* text, "no" in any letter case and "Norway" included, is returned as typed.
C12_DashSentinel ==
    pc = "answered" =>
        returnedNames = <<IF typed[1] = <<"-">> THEN ignoredMarker ELSE typed[1]>>

\* the sentinel was typed and the marker returned
C12_Witness ==
    /\ pc = "answered"
    /\ typed = << <<"-">> >>
    /\ returnedNames = <<ignoredMarker>>

(***************************************************************************)
(* The default each column-name question offers                            *)
(***************************************************************************)
\* the name derived from the header cells of the column of question k
HeaderName(k) == derivedName(headings(header)[k])

\* C13: the default offered for column j is defaultNames[j] when that entry
\* exists, otherwise the name derived from the header when it is not empty,
\* and col_<j+1> only when neither is available; in particular the derived
\* header name is offered when default names are supplied without an entry
\* for column j.
C13_DefaultOffered ==
    \A k \in 1..Len(requests) :
        requests[k].default =
            IF defaultColNames # undefinedNames /\ Truthy(At(defaultColNames, k))
            THEN defaultColNames[k]
            ELSE IF HeaderName(k) # <<>> THEN HeaderName(k)
            ELSE <<"c", "o", "l", "_">> \o toString(k)

(***************************************************************************)
(* The order of the names requestColumnNames returns                       *)
(***************************************************************************)
\* a header of one row without text and n columns
blankHeader(n) == << [j \in 1..n |-> undefined] >>

\* the name typed for column j
nameTyped(j) == <<"n">> \o toString(j)

\* the entries moved s places round, then possibly turned back to front
rotated(entries, s, backwards) ==
    LET n == Len(entries)
        turned == [k \in 1..n |-> entries[((k - 1 + s) % n) + 1]]
    IN  IF backwards THEN reverse(turned) ELSE turned

\* request.ts 171-196: the questions of an n-column header are answered; the
\* answers object holds the entries in an order of its own
InitSort ==
    /\ pc = "recorded"
    /\ \E n \in 1..MaxWidth, s \in 0..(MaxWidth - 1), backwards \in BOOLEAN :
          /\ s < n
          /\ requests = questions(blankHeader(n), undefinedNames)
          /\ typed = [k \in 1..n |-> nameTyped(k - 1)]
          /\ answers = rotated(recordedAnswers(questions(blankHeader(n), undefinedNames),
                                               [k \in 1..n |-> nameTyped(k - 1)]),
                               s, backwards)
    /\ returnedNames = undefinedNames
    /\ NoReuse
    /\ IdleLoop
    /\ IdleRow
    /\ IdleMatrix
    /\ IdleCell

\* request.ts 197-208: index the answers, sort them, return the names
SortAnswers ==
    /\ pc = "recorded"
    /\ returnedNames' = answeredNames(answers)
    /\ pc' = "sorted"
    /\ UNCHANGED <<defaultColNames, prevColNamesArg, reuseOffered, usePrevColNames,
                   requests, typed, answers, rowVars, matrixVars, cellVars, stringVars, mainVars>>

NextSort == SortAnswers

SpecSort == InitSort /\ [][NextSort]_vars

\* C14: whatever order the answers were recorded in, the names are returned
\* in ascending numeric order of the column index: the i-th name returned is
\* the answer given for column i, also for 11 columns and more, where column
\* 10 follows column 9 and not column 1.
C14_NumericOrder ==
    pc = "sorted" =>
        /\ Len(returnedNames) = Len(typed)
        /\ \A k \in 1..Len(typed) : returnedNames[k] = typed[k]

\* eleven answers recorded back to front and returned in column order
C14_Witness ==
    /\ pc = "sorted"
    /\ Len(typed) = 11
    /\ answers[1][1] = questionName(10)
    /\ answers[2][1] = questionName(9)
    /\ returnedNames[10] = nameTyped(9)
    /\ returnedNames[11] = nameTyped(10)

(***************************************************************************)
(* The csv file of each sheet                                              *)
(***************************************************************************)
\* how often a character occurs in a text
Count(text, char) == Cardinality({k \in 1..Len(text) : text[k] = char})

\* the number of cells of a table
RECURSIVE CellCount(_)
CellCount(tbl) == IF Len(tbl) = 0 THEN 0 ELSE Len(Head(tbl)) + CellCount(Tail(tbl))

\* the text is a whole table: a quoted cell for every cell, a line for every row
WholeTable(text, tbl) ==
    /\ Count(text, "\"") = 2 * CellCount(tbl)
    /\ Count(text, "\n") = IF Len(tbl) = 0 THEN 0 ELSE Len(tbl) - 1
    /\ Count(text, ",") >= CellCount(tbl) - Len(tbl)

\* C15: the csv file of a sheet is written exactly once, in one write of the
\* whole serialized table, only after the sheet's names are resolved and its
\* table is assembled, and before any step of the next sheet; wherever the
\* run stops, the sheets written are a prefix of the selected sheets and no
\* file holds a part of a table.
C15_OneWritePerSheet ==
    /\ [](/\ written = SubSeq(sheets, 1, sheetNum)
          /\ pc \in {"confirm", "prompt", "assemble", "write"} => sheetNum < Len(sheets)
          /\ pc \in {"assemble", "write"} =>
                (sheetName \in DOMAIN colNames /\ colNames[sheetName] = returnedNames))
    /\ [][pc' = "write" => (pc = "assemble" /\ data' = assemble(data, returnedNames))]_vars
    /\ [][written' # written =>
            /\ pc = "write"
            /\ written' = Append(written, sheetName)
            /\ WholeTable(fileText', data)]_vars
    /\ [][fileText' # fileText => (written' # written \/ fileText' = <<>>)]_vars

\* both sheets are written, the second as a table of two lines
C15_Witness ==
    /\ pc = "loop"
    /\ written = <<"Sheet1", "Sheet2">>
    /\ Count(fileText, "\n") = 1
    /\ Count(fileText, "\"") = 8

(***************************************************************************)
(* Names and data of different width                                       *)
(***************************************************************************)
\* the number of names returned differs from the number of data columns
WidthMismatch == table # <<>> /\ Len(returnedNames) # Len(table[1])

\* C16: when the number of resolved names differs from the width of the
\* data, the assembly does not go through silently with truncated or padded
\* columns: the mismatch is reported as an error.
C16_MismatchReported == (pc = "write" /\ WidthMismatch) => error # "none"

(***************************************************************************)
(* toCsv applied to a table of strings                                     *)
(***************************************************************************)
\* cells with a separator and with a quotation mark among them
CsvCells == {<<>>, <<"a", ",">>, <<"\"">>}

CsvTables == UNION {[1..n -> [1..m -> CsvCells]] : n \in 0..MaxRows, m \in 0..MaxCols}

InitCsv ==
    /\ pc = "table"
    /\ table \in CsvTables
    /\ csv = <<>>
    /\ transposed = <<>>
    /\ header = <<>>
    /\ data = <<>>
    /\ error = "none"
    /\ IdleRow
    /\ IdleCell
    /\ IdleMain

\* utils.ts 100-104
ToCsv ==
    /\ pc = "table"
    /\ fileText' = toCsv(table)
    /\ pc' = "serialized"
    /\ UNCHANGED <<sheets, sheetNum, prevColNames, colNames, written, matrixVars,
                   rowVars, cellVars, stringVars, requestVars>>

NextCsv == ToCsv

SpecCsv == InitCsv /\ [][NextCsv]_vars

\* the cells of a row, each between two quotation marks, with a comma before
\* every cell but the first
RECURSIVE QuotedCells(_)
QuotedCells(rw) ==
    IF Len(rw) = 0 THEN <<>>
    ELSE LET front == SubSeq(rw, 1, Len(rw) - 1)
             quoted == <<"\"">> \o rw[Len(rw)] \o <<"\"">>
         IN  IF Len(front) = 0 THEN quoted ELSE QuotedCells(front) \o <<",">> \o quoted

\* the rows, with a newline before every row but the first
RECURSIVE QuotedRows(_)
QuotedRows(tbl) ==
    IF Len(tbl) = 0 THEN <<>>
    ELSE LET front == SubSeq(tbl, 1, Len(tbl) - 1)
         IN  IF Len(front) = 0 THEN QuotedCells(tbl[Len(tbl)])
             ELSE QuotedRows(front) \o <<"\n">> \o QuotedCells(tbl[Len(tbl)])

\* C17: toCsv puts every cell between double quotes without changing its
\* content (a quote inside a cell is not doubled), joins the cells of a row
\* with commas and the rows with one newline, and ends without a newline
\* after the last row: n >= 1 rows of single-line cells give exactly n lines,
\* and the empty table gives the empty string.
C17_QuotedJoined ==
    pc = "serialized" =>
        /\ fileText = QuotedRows(table)
        /\ Len(table) = 0 => fileText = <<>>
        /\ Len(table) >= 1 => Count(fileText, "\n") + 1 = Len(table)
        /\ (Len(table) >= 1 /\ Len(table[1]) >= 1) => fileText[Len(fileText)] = "\""
        /\ Count(fileText, "\"") =
              2 * CellCount(table)
              + Cardinality({<<i, j>> \in (1..Len(table)) \X (1..MaxCols + 1) :
                                j <= Len(table[i]) /\ table[i][j] = <<"\"">>})

\* two rows with a quotation mark in the first cell are serialized
C17_Witness ==
    /\ pc = "serialized"
    /\ Len(table) = 2
    /\ table[1] = << <<"\"">>, <<"a", ",">> >>
    /\ Count(fileText, "\n") = 1
    /\ fileText[2] = "\""
    /\ fileText[3] = "\""
    /\ fileText[4] = ","

(***************************************************************************)
(* The cell normalizer applied to a textual cell                           *)
(***************************************************************************)
NoLineBreak(str) == \A k \in 1..Len(str) : str[k] # "\n" /\ str[k] # "\r"

\* the text without its carriage returns and with a space for every newline
OnOneLine(str) ==
    LET kept == SelectSeq(str, LAMBDA char : char # "\r")
    IN  [k \in 1..Len(kept) |-> IF kept[k] = "\n" THEN " " ELSE kept[k]]

\* C18: after the cell normalizer has run on a textual cell, neither its
\* display text nor its string typed value contains a carriage return or a
\* newline: every newline is replaced by one space and every carriage return
\* is removed; an absent cell is returned unchanged.
C18_NoLineBreaks ==
    pc = "transformed" =>
        /\ sheetCell.t = "s" =>
              /\ cell.t = "s"
              /\ IF sheetCell.w = undefined THEN cell.w = undefined
                 ELSE NoLineBreak(cell.w) /\ cell.w = OnOneLine(sheetCell.w)
              /\ cell.v.type = "string"
              /\ NoLineBreak(cell.v.str)
              /\ cell.v.str = OnOneLine(sheetCell.v.str)
        /\ sheetCell = absentCell => cell = absentCell

\* a text with a newline and a carriage return has been normalized
C18_Witness ==
    /\ pc = "transformed"
    /\ sheetCell.t = "s"
    /\ sheetCell.w = <<"\n", "a", "\r">>
    /\ cell.w = <<" ", "a">>
    /\ cell.v = stringValue(<<" ", "a">>)

(***************************************************************************)
(* The scan of toRow, one character at a time                              *)
(***************************************************************************)
ScanChars == {"a", "b", ",", "\""}

ScanLines == SeqsUpTo(ScanChars, MaxLineLen)

InitScan ==
    /\ pc = "scan"
    /\ line \in ScanLines
    /\ r = <<>>
    /\ row = <<>>
    /\ IdleScan
    /\ IdleMatrix
    /\ IdleCell
    /\ IdleMain

\* utils.ts 40-58: one iteration of the for loop
ScanChar ==
    /\ pc = "scan"
    /\ scanned < Len(line)
    /\ scanState' = toRowStep(scanState, line[scanned + 1])
    /\ scanned' = scanned + 1
    /\ UNCHANGED <<pc, r, line, row, matrixVars, cellVars, stringVars, mainVars, requestVars>>

\* utils.ts 40, 59: the loop is over, the row is returned
ReturnRow ==
    /\ pc = "scan"
    /\ scanned = Len(line)
    /\ row' = scanState.row
    /\ pc' = "parsed"
    /\ UNCHANGED <<r, line, scanned, scanState, matrixVars, cellVars, stringVars, mainVars, requestVars>>

NextScan == ScanChar \/ ReturnRow

SpecScan == InitScan /\ [][NextScan]_vars

\* the loop runs on as long as it can take a step
SpecScanLive == SpecScan /\ WF_vars(NextScan)

\* position k of the text lies outside quotes: an even number of quotation
\* marks precedes it
OutsideQuotes(text, k) == Cardinality({n \in 1..(k - 1) : text[n] = "\""}) % 2 = 0

\* the commas of the text that lie outside quotes
OutsideCommas(text) == {k \in 1..Len(text) : text[k] = "," /\ OutsideQuotes(text, k)}

\* C19: every comma outside quotes ends the current cell and starts a new
\* one, which is present as an empty string even if no character follows: a
\* line with k commas outside quotes yields exactly k + 1 cells ("a," yields
\* ["a", ""], ",," three empty strings), and a line without commas, the
\* empty line included, yields exactly one cell.
C19_CellCount == pc = "parsed" => Len(row) = Cardinality(OutsideCommas(line)) + 1

\* the cells of a row one after the other
RECURSIVE Flatten(_)
Flatten(rw) == IF Len(rw) = 0 THEN <<>> ELSE Head(rw) \o Flatten(Tail(rw))

\* the characters of the text that are neither a quotation mark nor a comma
\* outside quotes, in the order of the text
RECURSIVE CellText(_, _)
CellText(text, k) ==
    IF k > Len(text) THEN <<>>
    ELSE IF text[k] = "\"" \/ k \in OutsideCommas(text) THEN CellText(text, k + 1)
    ELSE <<text[k]>> \o CellText(text, k + 1)

\* the cell the scan is at, empty as long as it has not been created
CurrentCell(st) == IF Len(st.row) > st.idx THEN st.row[st.idx + 1] ELSE <<>>

\* C20: every double quote toggles withinQuotes and never appears in a cell
\* returned; every other character, a comma inside quotes included, is
\* appended to the current cell in the order of the input; the scan comes to
\* its end for every line without an error, also when the line ends with
\* withinQuotes true.
C20_QuotesToggle ==
    /\ [][scanned' = scanned + 1 =>
            LET char == line[scanned + 1]
            IN  IF char = "\""
                THEN /\ scanState'.withinQuotes = ~scanState.withinQuotes
                     /\ scanState'.row = scanState.row
                     /\ scanState'.idx = scanState.idx
                ELSE /\ scanState'.withinQuotes = scanState.withinQuotes
                     /\ (char # "," \/ scanState.withinQuotes) =>
                           /\ scanState'.idx = scanState.idx
                           /\ CurrentCell(scanState') = CurrentCell(scanState) \o <<char>>
                           /\ \A k \in 1..scanState.idx : scanState'.row[k] = scanState.row[k]]_vars
    /\ [](pc = "parsed" =>
            /\ NoQuote(row)
            /\ Flatten(row) = CellText(line, 1)
            /\ scanState.withinQuotes = (Count(line, "\"") % 2 = 1))
    /\ [](error = "none" /\ scanned <= Len(line))
    /\ <>(pc = "parsed")

\* a line that ends inside quotes has been parsed
C20_Witness ==
    /\ pc = "parsed"
    /\ line = <<"\"", "b", ",">>
    /\ scanState.withinQuotes
    /\ row = << <<"b", ",">> >>

(***************************************************************************)
(* The start of the data block in the split that requires a number         *)
(***************************************************************************)
\* the cell is a text that reads as a number once its commas are removed
NumericCell(c) ==
    c # undefined /\ ~ToNumber(SelectSeq(c, LAMBDA char : char # ",")).nan

\* the complete rows of the table with a numeric cell
NumericRows ==
    {i \in CompleteRows : \E j \in 1..Len(table[i]) : NumericCell(table[i][j])}

FirstNumeric == CHOOSE i \in NumericRows : \A k \in NumericRows : i <= k

HeaderChars == {"a", " ", "\r"}

HeaderTexts == SeqsUpTo(HeaderChars, MaxHeaderLen)

\* the cells below the first cell of a column
LowerCells == {<<>>, <<"a">>, <<" ">>, undefined}

\* the header of the example: Jan 2020 above Feb 2020
ExampleHeader ==
    << << <<"J", "a", "n">>, <<"2", "0", "2", "0">> >>,
       << <<"F", "e", "b">>, <<"2", "0", "2", "0">> >> >>

\* headers of one column, and the example of two columns
Headers ==
    UNION {{[i \in 1..n |-> <<IF i = 1 THEN top ELSE lower[i]>>] :
                top \in HeaderTexts, lower \in [1..n -> LowerCells]} :
           n \in 1..MaxHeaderRows}
    \cup {ExampleHeader}

InitHeading ==
    /\ pc = "header"
    /\ header \in Headers
    /\ csv = <<>>
    /\ table = <<>>
    /\ transposed = <<>>
    /\ data = <<>>
    /\ error = "none"
    /\ IdleRow
    /\ IdleCell
    /\ IdleMain

\* request.ts 171-193: the questions, without default names supplied
BuildQuestions ==
    /\ pc = "header"
    /\ requests' = questions(header, defaultColNames)
    /\ pc' = "questions"
    /\ UNCHANGED <<defaultColNames, prevColNamesArg, reuseOffered, usePrevColNames,
                   typed, answers, returnedNames, rowVars, matrixVars, cellVars, stringVars, mainVars>>

NextHeading == BuildQuestions

SpecHeading == InitHeading /\ [][NextHeading]_vars

\* the cells of column j of the header that are not empty, top to bottom
FilledCells(j) ==
    LET column == [i \in 1..Len(header) |-> header[i][j]]
    IN  SelectSeq(column, LAMBDA c : c # undefined /\ c # <<>>)

\* a text without its carriage returns and without white space at its ends
Cleaned(str) == trim(SelectSeq(str, LAMBDA char : char # "\r"))

\* C22: the default name derived for a column is the column's non-empty
\* header cells, top to bottom, each with its carriage returns removed and
\* trimmed, joined with " / "; equal values are kept (Jan 2020 above Feb 2020
\* gives "Jan / Feb" and "2020 / 2020").
C22_DerivedName ==
    pc = "questions" =>
        \A j \in 1..Len(requests) :
            LET name == Join([k \in 1..Len(FilledCells(j)) |-> Cleaned(FilledCells(j)[k])],
                             <<" ", "/", " ">>)
            IN  requests[j].default =
                    IF name # <<>> THEN name ELSE <<"c", "o", "l", "_">> \o toString(j)

\* the text between two components of a derived name
Slash == <<" ", "/", " ">>

StartsWith(str, sub) == Len(str) >= Len(sub) /\ SubSeq(str, 1, Len(sub)) = sub

EndsWith(str, sub) ==
    Len(str) >= Len(sub) /\ SubSeq(str, Len(str) - Len(sub) + 1, Len(str)) = sub

\* C28: a derived default name has no empty component: it neither starts
\* nor ends with " / " and does not contain " /  / ", for every header
\* column, also one with cells of white space only or of one carriage return.
C28_NoEmptyComponent ==
    pc = "questions" =>
        \A j \in 1..Len(requests) :
            /\ ~StartsWith(requests[j].default, Slash)
            /\ ~EndsWith(requests[j].default, Slash)
            /\ ~includes(requests[j].default, Slash \o Slash)

(***************************************************************************)
(* The shape of the transposed table                                       *)
(***************************************************************************)
\* C23: transpose returns the empty table unchanged; for a rectangular table
\* of nRows >= 1 rows and nCols columns it returns nCols rows of length
\* nRows each, with result[j][i] = table[i][j] for all i and j.
C23_TransposeShape ==
    pc = "transposed" =>
        IF Len(table) = 0 THEN transposed = table
        ELSE /\ Len(transposed) = Len(table[1])
             /\ \A j \in 1..Len(transposed) :
                   /\ Len(transposed[j]) = Len(table)
                   /\ \A i \in 1..Len(table) : transposed[j][i] = table[i][j]

\* a table of three rows and two columns has been transposed
C23_Witness ==
    /\ pc = "transposed"
    /\ Len(table) = 3
    /\ Len(table[1]) = 2
    /\ table[3][2] = <<"1">>
    /\ table[1][2] = <<"a">>
    /\ Len(transposed) = 2
    /\ transposed[2] = << <<"a">>, table[2][2], <<"1">> >>

(***************************************************************************)
(* The cells that survive the trimming                                     *)
(***************************************************************************)
\* the non-empty cells of a grid, row by row
RECURSIVE FilledOf(_)
FilledOf(tbl) ==
    IF Len(tbl) = 0 THEN <<>>
    ELSE SelectSeq(Head(tbl), LAMBDA c : c # undefined /\ c # <<>>) \o FilledOf(Tail(tbl))

\* C24: trimming discards only empty cells: every non-empty cell of the
\* grid parsed from the lines of a sheet is still in the trimmed table, also
\* when the first parsed row is shorter than a later row that has a
\* non-empty cell in a column beyond the first row's length.
C24_KeepsFilledCells == pc = "trimmed" => FilledOf(table) = FilledOf(parseRows(csv))

(***************************************************************************)
(* One sheet in the earlier cli, whose split leaves an empty header empty  *)
(* (types.d.ts 462-485, 508-562, 604-677)                                  *)
(***************************************************************************)
\* the questions of the earlier requestColumnNames: the default is the
\* derived name, also when it is empty
questionsLegacy(hdr) ==
    LET hs == headings(hdr)
    IN  [k \in 1..Len(hs) |->
            [name |-> questionName(k - 1), default |-> derivedName(hs[k])]]

\* the answers prompt records for the earlier questions
recordedAnswersLegacy(qs, texts) ==
    [k \in 1..Len(qs) |->
        <<qs[k].name, colNameFilterLegacy(IF texts[k] = <<>> THEN qs[k].default ELSE texts[k])>>]

\* what the operator types: nothing, a name, the sentinel
EnteredNamesLegacy == {<<>>, <<"x">>, <<"n", "o">>}

InitLegacy ==
    /\ pc = "sheet"
    /\ csv \in SheetCsvs
    /\ table = <<>>
    /\ transposed = <<>>
    /\ header = <<>>
    /\ data = <<>>
    /\ error = "none"
    /\ IdleRow
    /\ IdleCell
    /\ IdleMain

\* types.d.ts 641-650: parse the csv text, trim, split
SplitSheet ==
    /\ pc = "sheet"
    /\ LET trimmed == dropEmptyCols(dropEmptyRows(parseRows(csv)))
           res == splitDefault(trimmed)
       IN  /\ table' = trimmed
           /\ header' = res.header
           /\ data' = res.data
           /\ error' = res.error
    /\ pc' = "names"
    /\ UNCHANGED <<csv, transposed, rowVars, cellVars, stringVars, mainVars, requestVars>>

\* types.d.ts 653-659 and 508-562: the names of the first sheet, for which
\* no previous names exist
RequestNames ==
    /\ pc = "names"
    /\ requests' = questionsLegacy(header)
    /\ \E entered \in [1..Len(headings(header)) -> EnteredNamesLegacy] :
          /\ typed' = entered
          /\ answers' = recordedAnswersLegacy(questionsLegacy(header), entered)
          /\ returnedNames' =
                answeredNames(recordedAnswersLegacy(questionsLegacy(header), entered))
          /\ prevColNames' =
                answeredNames(recordedAnswersLegacy(questionsLegacy(header), entered))
    /\ pc' = "named"
    /\ UNCHANGED <<defaultColNames, prevColNamesArg, reuseOffered, usePrevColNames,
                   sheets, sheetNum, colNames, written, fileText,
                   matrixVars, rowVars, cellVars, stringVars>>

\* types.d.ts 662-667: add the names, drop the columns to ignore
AssembleLegacy ==
    /\ pc = "named"
    /\ data' = assemble(data, returnedNames)
    /\ pc' = "assembled"
    /\ UNCHANGED <<csv, table, transposed, header, error, mainVars, requestVars,
                   rowVars, cellVars, stringVars>>

\* types.d.ts 670-675: write the csv file
WriteLegacy ==
    /\ pc = "assembled"
    /\ fileText' = toCsv(data)
    /\ pc' = "saved"
    /\ UNCHANGED <<sheets, sheetNum, prevColNames, colNames, written, matrixVars,
                   requestVars, rowVars, cellVars, stringVars>>

NextLegacy == SplitSheet \/ RequestNames \/ AssembleLegacy \/ WriteLegacy

SpecLegacy == InitLegacy /\ [][NextLegacy]_vars

\* C25: in the cli whose split leaves an empty header empty every row of
\* the data block appears in the csv file: for a trimmed table whose first
\* row is complete (the header block is empty and no name is asked for) the
\* file still has 1 + (number of data rows) rows and every data column.
C25_DataRowsWritten ==
    (pc = "saved" /\ Len(table) > 0 /\ AllCellsFilled(table[1])) =>
        /\ header = <<>>
        /\ requests = <<>>
        /\ Count(fileText, "\n") = LastComplete
        /\ Count(fileText, "\"") = 2 * Len(table[1]) * (1 + LastComplete)

(***************************************************************************)
(* The data block of a table with rows is never empty                      *)
(***************************************************************************)
\* the row the data block of the split that requires a number starts at
StartRow == IF NumericRows = {} THEN 1 ELSE FirstNumeric

\* C26: in both splits, for every table with rows, the start index computed
\* is not larger than the end index: the data block is the rows from the
\* start through the end, at least one row, and the blank data row of the
\* split that requires a number is never substituted.
C26_StartBeforeEnd ==
    Len(table) > 0 =>
        /\ pc = "split" =>
              /\ StartRow <= LastComplete
              /\ data = SubSeq(table, StartRow, LastComplete)
              /\ Len(data) >= 1
        /\ pc = "splitDefault" =>
              /\ FirstComplete <= LastComplete
              /\ data = SubSeq(table, FirstComplete, LastComplete)
              /\ Len(data) >= 1

\* the only complete row of three is the last one, and it is the data
C26_Witness ==
    /\ pc = "split"
    /\ Len(table) = 3
    /\ CompleteRows = {3}
    /\ NumericRows = {3}
    /\ Len(header) = 2
    /\ data = <<table[3]>>

FormatChars == {"1", ",", ".", "@"}

FormatTexts == SeqsUpTo(FormatChars, MaxTextLen)

InitFormat ==
    /\ pc = "text"
    /\ numberText \in FormatTexts
    /\ formatted = <<>>
    /\ filename = <<>>
    /\ outDefaults = <<>>
    /\ isGermanFormat = FALSE
    /\ sheetCell = absentCell
    /\ cell = absentCell
    /\ IdleRow
    /\ IdleMatrix
    /\ IdleMain

\* utils.ts 133-136
Format ==
    /\ pc = "text"
    /\ formatted' = toEnglishFormat(numberText)
    /\ pc' = "formatted"
    /\ UNCHANGED <<numberText, filename, outDefaults, rowVars, matrixVars, cellVars,
                   mainVars, requestVars>>

\* utils.ts 133-136, applied to its own result
FormatAgain ==
    /\ pc = "formatted"
    /\ formatted' = toEnglishFormat(formatted)
    /\ pc' = "formattedTwice"
    /\ UNCHANGED <<numberText, filename, outDefaults, rowVars, matrixVars, cellVars,
                   mainVars, requestVars>>

NextFormat == Format \/ FormatAgain

SpecFormat == InitFormat /\ [][NextFormat]_vars

\* the text holds no placeholder character
NoPlaceholder(str) == \A k \in 1..Len(str) : str[k] # "@"

\* C29: on the strings without the placeholder character @ toEnglishFormat
\* is an involution: applied twice it returns the string it was given, it
\* keeps the length, and it turns every ',' into '.' and every '.' into ','
\* and leaves every other character as it is.
C29_Involution ==
    NoPlaceholder(numberText) =>
        /\ pc = "formatted" =>
              /\ Len(formatted) = Len(numberText)
              /\ \A k \in 1..Len(numberText) :
                    formatted[k] = CASE numberText[k] = "," -> "."
                                     [] numberText[k] = "." -> ","
                                     [] OTHER -> numberText[k]
        /\ pc = "formattedTwice" => formatted = numberText

\* a text with both separators has been formatted twice
C29_Witness ==
    /\ pc = "formattedTwice"
    /\ numberText = <<"1", ".", ",">>
    /\ formatted = <<"1", ".", ",">>

(***************************************************************************)
(* The default names of the csv files                                      *)
(***************************************************************************)
\* String.prototype.replaceAll with a string pattern of several characters:
\* the occurrences from left to right, none overlapping another
RECURSIVE replaceAllString(_, _, _)
replaceAllString(str, sub, by) ==
    IF Len(str) < Len(sub) THEN str
    ELSE IF SubSeq(str, 1, Len(sub)) = sub
    THEN by \o replaceAllString(SubSeq(str, Len(sub) + 1, Len(str)), sub, by)
    ELSE <<Head(str)>> \o replaceAllString(Tail(str), sub, by)

\* str.replaceAll('/', '-').replaceAll(' - ', '-').replaceAll(' ', '-')
normalize(str) ==
    replaceAll(replaceAllString(replaceAll(str, "/", <<"-">>), <<" ", "-", " ">>, <<"-">>),
               " ", <<"-">>)

\* path.extname: the text from the last '.' of the last path segment on, and
\* '' when that segment has no '.' or only one at its start
extname(file) ==
    LET slashes == {k \in 1..Len(file) : file[k] = "/"}
        start == IF slashes = {} THEN 1
                 ELSE (CHOOSE k \in slashes : \A n \in slashes : n <= k) + 1
        dots == {k \in start..Len(file) : file[k] = "."}
        last == CHOOSE k \in dots : \A n \in dots : n <= k
    IN  IF dots = {} \/ last = start THEN <<>> ELSE SubSeq(file, last, Len(file))

\* `${filename.replace(path.extname(filename), '')}${suffix}`
replaceExtension(file, suffix) == replaceString(file, extname(file), <<>>) \o suffix

\* utils.replaceExtension(filename, `_${utils.normalize(sheetName)}.csv`)
defaultOut(file, name) ==
    replaceExtension(file, <<"_">> \o normalize(name) \o <<".", "c", "s", "v">>)

SheetNameChars == {"a", " ", "-", "/"}

\* the names of the sheets of a workbook
SheetNameTexts == SeqsUpTo(SheetNameChars, MaxSheetNameLen) \ {<<>>}

\* the workbook chosen: b.xlsx or d/b.xlsx
Filenames ==
    {<<"b", ".", "x", "l", "s", "x">>, <<"d", "/", "b", ".", "x", "l", "s", "x">>}

\* types.d.ts 112-133: two sheets of different names are selected, no
\* configuration is loaded
InitOut ==
    /\ pc = "out"
    /\ sheets \in {<<first, second>> : first \in SheetNameTexts, second \in SheetNameTexts}
    /\ sheets[1] # sheets[2]
    /\ sheetNum = 0
    /\ filename \in Filenames
    /\ outDefaults = <<>>
    /\ numberText = <<>>
    /\ formatted = <<>>
    /\ prevColNames = undefinedNames
    /\ colNames = <<>>
    /\ written = <<>>
    /\ fileText = <<>>
    /\ isGermanFormat = FALSE
    /\ sheetCell = absentCell
    /\ cell = absentCell
    /\ IdleRequest
    /\ IdleRow
    /\ IdleMatrix

\* types.d.ts 199-208: the default file name offered for the sheet
OfferDefault ==
    /\ pc = "out"
    /\ sheetNum < Len(sheets)
    /\ outDefaults' = [n \in (DOMAIN outDefaults) \cup {sheetName} |->
                          IF n = sheetName THEN defaultOut(filename, sheetName)
                          ELSE outDefaults[n]]
    /\ sheetNum' = sheetNum + 1
    /\ UNCHANGED <<pc, sheets, prevColNames, colNames, written, fileText, numberText,
                   formatted, filename, rowVars, matrixVars, cellVars, requestVars>>

NextOut == OfferDefault

SpecOut == InitOut /\ [][NextOut]_vars

\* C30: within one run two different selected sheets never get the same
\* default file name: normalize maps different sheet names to different
\* suffixes, so accepting the defaults never makes the csv file of a later
\* sheet overwrite the one of an earlier sheet.
C30_DistinctDefaults ==
    \A first \in DOMAIN outDefaults : \A second \in DOMAIN outDefaults :
        first # second => outDefaults[first] # outDefaults[second]

====
